---- MODULE Spec2Model ----
(***************************************************************************)
(* QDVectorDB: the LSM storage engine (WAL, memtable, tombstones, SSTable  *)
(* files, flush, compaction), the KD-tree index and the VectorDB facade    *)
(* (mirror, dimensionality, add/delete/search), as state machines.         *)
(*                                                                         *)
(* Numbers are modelled as integers.  A euclidean distance is carried as   *)
(* its square and a cosine score as the pair (dot, |a|^2 * |b|^2); both    *)
(* are compared exactly, which orders them as the floating point values    *)
(* are ordered for the small integer coordinates used here.                *)
(* Vectors have length >= 1 (a zero-length vector is not modelled).        *)
(***************************************************************************)
EXTENDS Integers, Sequences, FiniteSets, TLC

VARIABLES
    storage,    \* VectorDB.storage: the LSMStorage object and its directory
    inMemory,   \* VectorDB.inMemory: Map id -> RecordEntry, in insertion order
    index,      \* VectorDB.index: the KDTreeIndex, or NoIndex
    dims,       \* VectorDB.dims: number, or NoDims for undefined
    obs,        \* the last completed public call and its outcome; arg is the id(s) of a
                \* delete, the query and k of a search, the vector length add checked
    firstD,     \* history: the dimensionality fixed by the first successful add
    lastOf,     \* history: per id, the latest successful operation on it
    everAdded,  \* history: the ids of all successful adds
    everDeleted, \* history: the ids of all successful deletes
    lock,       \* VectorDB.lock: the RWLock object
    proc,       \* per caller of the lock: its request, its permit, and what it waits behind
    call        \* per caller of the store: the public call it is in and how far it got

lockVars == <<lock, proc, call>>

vars == <<storage, inMemory, index, dims, obs, firstD, lastOf, everAdded, everDeleted,
          lock, proc, call>>

(***************************************************************************)
(* Bounds of the model.                                                    *)
(***************************************************************************)
MaxWal == 3             \* WAL lines written in one behaviour
FlushSize == 2          \* opts.memtableFlushSize
CompactAt == 2          \* opts.maxSSTablesBeforeCompact
MaxK == 1               \* the k of a search ranges over 1..MaxK
KnnMaxAdds == 5         \* records added to the store of SpecKnn
FreshMaxAdds == 4       \* records added to the store of SpecFresh
NumCallers == 3         \* concurrent callers of the lock
MaxReleaseCalls == 2    \* calls of one permit's release function
NumClients == 2         \* concurrent clients of the store
ClientMaxWal == 2       \* WAL lines written by concurrent clients
ChurnMaxWal == 6        \* WAL lines written to the store of SpecChurn
ChurnK == 2             \* the k of a search of SpecChurn ranges over 1..ChurnK

\* ids in their order as strings
IdOrder == <<"a", "b", "c", "d", "e", "f", "g">>

IdList == SubSeq(IdOrder, 1, 2)
Ids == {IdList[i] : i \in 1..Len(IdList)}
KnnIds == {IdOrder[i] : i \in 1..Len(IdOrder)}
Vectors == {<<0>>, <<1>>, <<0, 1>>}
NoMeta == "undefined"
Metas == {NoMeta, "m"}

NoDims == -1

(***************************************************************************)
(* JavaScript values.                                                      *)
(***************************************************************************)
\* a.id < b.id on the strings used as ids
IdRank(id) == CHOOSE i \in 1..Len(IdOrder) : IdOrder[i] = id

RecordEntry(id, vector, meta) == [id |-> id, vector |-> vector, meta |-> meta]

\* An insertion-ordered Map<string, RecordEntry> is the sequence of its values.
MapHas(m, id) == \E i \in 1..Len(m) : m[i].id = id

MapGet(m, id) == m[CHOOSE i \in 1..Len(m) : m[i].id = id]

MapSet(m, r) ==
    IF MapHas(m, r.id)
    THEN [i \in 1..Len(m) |-> IF m[i].id = r.id THEN r ELSE m[i]]
    ELSE Append(m, r)

MapDelete(m, id) == SelectSeq(m, LAMBDA r : r.id # id)

MapKeys(m) == {m[i].id : i \in 1..Len(m)}

MapSetAll(m, rows) ==
    LET F[i \in 0..Len(rows)] == IF i = 0 THEN m ELSE MapSet(F[i - 1], rows[i])
    IN  F[Len(rows)]

Range(s) == {s[i] : i \in 1..Len(s)}

\* Array.prototype.sort is stable: an array sorted by repeated insertion, each
\* element placed behind the elements that do not come after it.
InsertBy(sorted, x, Before(_, _)) ==
    LET pos == Cardinality({i \in 1..Len(sorted) : ~Before(x, sorted[i])})
    IN  SubSeq(sorted, 1, pos) \o <<x>> \o SubSeq(sorted, pos + 1, Len(sorted))

SortBy(s, Before(_, _)) ==
    LET F[i \in 0..Len(s)] == IF i = 0 THEN <<>> ELSE InsertBy(F[i - 1], s[i], Before)
    IN  F[Len(s)]

IdBefore(a, b) == IdRank(a.id) < IdRank(b.id)

(***************************************************************************)
(* LSMStorage.  The object is the record                                   *)
(*   wal        the lines of wal.jsonl, each a parsed WALRecord            *)
(*   dir        the sst_* files of the directory, each [name, content]     *)
(*   memtable, tombstones, sstCounter, memtableFlushSize,                  *)
(*   maxSSTablesBeforeCompact   the fields of the class.                   *)
(* A file name sst_<seq>.json or sst_<seq>_compact.json is [seq, compact]. *)
(***************************************************************************)
SstName(seq, compact) == [seq |-> seq, compact |-> compact]

\* The order of the names as strings: the zero-padded number first, then
\* "." (plain) before "_" (compact).
NameKey(name) == 2 * name.seq + (IF name.compact THEN 1 ELSE 0)

NameBefore(f, g) == NameKey(f.name) < NameKey(g.name)

WriteFile(dir, name, content) ==
    {f \in dir : f.name # name} \cup {[name |-> name, content |-> content]}

Unlink(dir, names) == {f \in dir : f.name \notin names}

\* readdir + filter + sort(): the files in ascending order of name
SortedSsts(dir) ==
    LET Nth[i \in 1..Cardinality(dir)] ==
            CHOOSE f \in dir : Cardinality({g \in dir : NameBefore(g, f)}) = i - 1
    IN  [i \in 1..Cardinality(dir) |-> Nth[i]]

Reverse(s) == [i \in 1..Len(s) |-> s[Len(s) + 1 - i]]

WalPut(r) == [type |-> "put", id |-> r.id, vector |-> r.vector, meta |-> r.meta]

WalDel(id) == [type |-> "del", id |-> id]

\* ReplayLine without line 140: a replayed put leaves the tombstone in place
ReplayLineKeepsTombstone(mt, rec) ==
    IF rec.type = "put"
    THEN [memtable |-> MapSet(mt.memtable, RecordEntry(rec.id, rec.vector, rec.meta)),
          tombstones |-> mt.tombstones]
    ELSE [memtable |-> MapDelete(mt.memtable, rec.id),
          tombstones |-> mt.tombstones \cup {rec.id}]

\* init(): the replay of one WAL line into [memtable, tombstones]
ReplayLine(mt, rec) ==
    IF rec.type = "put"
    THEN [memtable |-> MapSet(mt.memtable, RecordEntry(rec.id, rec.vector, rec.meta)),
          tombstones |-> mt.tombstones \ {rec.id}]
    ELSE [memtable |-> MapDelete(mt.memtable, rec.id),
          tombstones |-> mt.tombstones \cup {rec.id}]

\* a line of wal.jsonl that is not JSON, as a write cut short leaves it
Garbage == [type |-> "garbage"]

\* JSON.parse(line) returns
Parses(line) == line.type # "garbage"

\* init(): the try block.  The loop replays the lines up to the first one that does not
\* parse; the error thrown there leaves the loop and is caught.
ReplayWAL(wal) ==
    LET F[i \in 0..Len(wal)] ==
            IF i = 0 THEN [mt |-> [memtable |-> <<>>, tombstones |-> {}], caught |-> FALSE]
            ELSE IF F[i - 1].caught \/ ~Parses(wal[i])
                 THEN [mt |-> F[i - 1].mt, caught |-> TRUE]
                 ELSE [mt |-> ReplayLine(F[i - 1].mt, wal[i]), caught |-> FALSE]
    IN  F[Len(wal)]

\* new LSMStorage(opts) followed by init() on a directory holding wal and dir
StorageInit(wal, dir, flushSize, compactAt) ==
    LET mt == ReplayWAL(wal).mt
    IN  [wal |-> wal, dir |-> dir,
         memtable |-> mt.memtable, tombstones |-> mt.tombstones,
         sstCounter |-> Cardinality(dir),
         memtableFlushSize |-> flushSize,
         maxSSTablesBeforeCompact |-> compactAt]

\* CompactionDue with > for >=: the merge waits for one segment more
CompactionDueOver(s) == Cardinality(s.dir) > s.maxSSTablesBeforeCompact

\* maybeCompact() does not return early: ssts.length >= maxSSTablesBeforeCompact
CompactionDue(s) == Cardinality(s.dir) >= s.maxSSTablesBeforeCompact

\* maybeCompact()
MaybeCompact(s) ==
    IF ~CompactionDue(s) THEN s
    ELSE
        LET ssts == SortedSsts(s.dir)
            M[i \in 0..Len(ssts)] ==
                IF i = 0 THEN <<>> ELSE MapSetAll(M[i - 1], ssts[i].content)
            kept == SelectSeq(M[Len(ssts)], LAMBDA r : r.id \notin s.tombstones)
            merged == SortBy(kept, IdBefore)
            counter == s.sstCounter + 1
            written == WriteFile(s.dir, SstName(counter, TRUE), merged)
        IN  [s EXCEPT !.sstCounter = counter,
                      !.dir = Unlink(written, {ssts[i].name : i \in 1..Len(ssts)})]

\* the state between writeFile/clear and maybeCompact() in flushMemtable()
FlushWrite(s) ==
    LET arr == SortBy(s.memtable, IdBefore)
        counter == s.sstCounter + 1
    IN  [s EXCEPT !.sstCounter = counter,
                  !.dir = WriteFile(s.dir, SstName(counter, FALSE), arr),
                  !.memtable = <<>>]

\* flushMemtable()
FlushMemtable(s) ==
    IF Len(s.memtable) = 0 THEN s ELSE MaybeCompact(FlushWrite(s))

\* the state of putBatch(rows) before its flush check
PutApply(s, rows) ==
    [s EXCEPT !.wal = s.wal \o [i \in 1..Len(rows) |-> WalPut(rows[i])],
              !.memtable = MapSetAll(s.memtable, rows),
              !.tombstones = s.tombstones \ Range([i \in 1..Len(rows) |-> rows[i].id])]

\* the state of deleteBatch(ids) before its flush check
DeleteApply(s, ids) ==
    LET D[i \in 0..Len(ids)] ==
            IF i = 0 THEN s.memtable ELSE MapDelete(D[i - 1], ids[i])
    IN  [s EXCEPT !.wal = s.wal \o [i \in 1..Len(ids) |-> WalDel(ids[i])],
                  !.memtable = D[Len(ids)],
                  !.tombstones = s.tombstones \cup Range(ids)]

\* FlushIfFull with > for >=: the flush waits for one record more
FlushIfOver(s) ==
    IF Len(s.memtable) > s.memtableFlushSize THEN FlushMemtable(s) ELSE s

\* if (this.memtable.size >= this.memtableFlushSize) await this.flushMemtable()
FlushIfFull(s) ==
    IF Len(s.memtable) >= s.memtableFlushSize THEN FlushMemtable(s) ELSE s

\* putBatch(rows)
PutBatch(s, rows) ==
    IF Len(rows) = 0 THEN s ELSE FlushIfFull(PutApply(s, rows))

\* LSMStorage.deleteBatch(ids)
StorageDeleteBatch(s, ids) ==
    IF Len(ids) = 0 THEN s ELSE FlushIfFull(DeleteApply(s, ids))

\* The file system calls of a write that can throw: fs.appendFile of the WAL lines,
\* writeFile of the segment in flushMemtable(), writeFile of the merged segment in
\* maybeCompact().  FailPoints(s) are those that a putBatch or deleteBatch reaches
\* when s is its state before the flush check.
FailPoints(s) ==
    {"append"}
    \cup (IF Len(s.memtable) >= s.memtableFlushSize /\ Len(s.memtable) > 0
          THEN {"flush"} ELSE {})
    \cup (IF Len(s.memtable) >= s.memtableFlushSize /\ Len(s.memtable) > 0
             /\ CompactionDue(FlushWrite(s))
          THEN {"compact"} ELSE {})

\* the storage object when the call at `at` throws: s is the state on entry of the
\* write and applied its state before the flush check.  The failed write leaves no file.
\* flushMemtable() has counted its file (sstCounter++) before writeFile, maybeCompact()
\* too (++this.sstCounter).
FailedAt(s, applied, at) ==
    IF at = "append" THEN s
    ELSE IF at = "flush" THEN [applied EXCEPT !.sstCounter = @ + 1]
    ELSE [FlushWrite(applied) EXCEPT !.sstCounter = @ + 1]

NotFound == [id |-> "undefined", vector |-> <<>>, meta |-> NoMeta]

\* get(id)
Get(s, id) ==
    IF id \in s.tombstones THEN NotFound
    ELSE IF MapHas(s.memtable, id) THEN MapGet(s.memtable, id)
    ELSE
        LET ssts == Reverse(SortedSsts(s.dir))
            hits == {i \in 1..Len(ssts) : MapHas(ssts[i].content, id)}
        IN  IF hits = {} THEN NotFound
            ELSE MapGet(ssts[CHOOSE i \in hits : \A j \in hits : i <= j].content, id)

\* scanAll()
ScanAll(s) ==
    LET ssts == Reverse(SortedSsts(s.dir))
        Fill(out, arr) ==
            LET A[i \in 0..Len(arr)] ==
                    IF i = 0 THEN out
                    ELSE IF ~MapHas(A[i - 1], arr[i].id) /\ arr[i].id \notin s.tombstones
                         THEN MapSet(A[i - 1], arr[i])
                         ELSE A[i - 1]
            IN  A[Len(arr)]
        O[i \in 0..Len(ssts)] ==
            IF i = 0 THEN s.memtable ELSE Fill(O[i - 1], ssts[i].content)
    IN  SelectSeq(O[Len(ssts)], LAMBDA r : r.id \notin s.tombstones)

(***************************************************************************)
(* Vector arithmetic (utils/vector).  v[axis] of JavaScript is             *)
(* v[axis + 1] here, and undefined beyond the vector's length.             *)
(***************************************************************************)
HasCoord(v, axis) == axis < Len(v)

SumTo(f, n) ==
    LET S[i \in 0..n] == IF i = 0 THEN 0 ELSE S[i - 1] + f[i]
    IN  S[n]

\* dot(a, b), for vectors of one length
Dot(a, b) == SumTo([i \in 1..Len(a) |-> a[i] * b[i]], Len(a))

\* norm(a) squared
Norm2(a) == Dot(a, a)

\* assertSameDim(a, b) throws
DimMismatch(a, b) == Len(a) # Len(b)

\* euclideanDistance(a, b) squared, for vectors of one length
Dist2(a, b) == SumTo([i \in 1..Len(a) |-> (a[i] - b[i]) * (a[i] - b[i])], Len(a))

\* cosineSimilarity(a, b) throws: only dot() checks the lengths, behind the
\* early return for a zero norm
CosineThrows(a, b) == Norm2(a) # 0 /\ Norm2(b) # 0 /\ DimMismatch(a, b)

\* cosineSimilarity(a, b) as the pair [d, n2] standing for d / sqrt(n2)
CosineSimilarity(a, b) ==
    IF Norm2(a) = 0 \/ Norm2(b) = 0 THEN [d |-> 0, n2 |-> 1]
    ELSE [d |-> Dot(a, b), n2 |-> Norm2(a) * Norm2(b)]

\* s > t for two scores
ScoreGreater(s, t) ==
    IF s.d >= 0 /\ t.d >= 0 THEN s.d * s.d * t.n2 > t.d * t.d * s.n2
    ELSE IF s.d >= 0 THEN TRUE
    ELSE IF t.d >= 0 THEN FALSE
    ELSE s.d * s.d * t.n2 < t.d * t.d * s.n2

(***************************************************************************)
(* KDTreeIndex.  The object is [present, dims, nodes]; nodes maps the path *)
(* of a node from the root (0 = left, 1 = right) to [point, axis].         *)
(***************************************************************************)
NoIndex == [present |-> FALSE, dims |-> NoDims, nodes |-> <<>>]

NewIndex(d) == [present |-> TRUE, dims |-> d, nodes |-> <<>>]

\* the comparator of build(): a NaN difference counts as equal
AxisBefore(a, b, axis) ==
    /\ HasCoord(a.vector, axis)
    /\ HasCoord(b.vector, axis)
    /\ a.vector[axis + 1] < b.vector[axis + 1]

RECURSIVE BuildRec(_, _, _, _)
BuildRec(pts, depth, path, d) ==
    IF Len(pts) = 0 THEN <<>>
    ELSE
        LET axis == depth % d
            Before(a, b) == AxisBefore(a, b, axis)
            sorted == SortBy(pts, Before)
            mid == Len(sorted) \div 2
        IN  (path :> [point |-> sorted[mid + 1], axis |-> axis])
            @@ BuildRec(SubSeq(sorted, 1, mid), depth + 1, Append(path, 0), d)
            @@ BuildRec(SubSeq(sorted, mid + 2, Len(sorted)), depth + 1, Append(path, 1), d)

\* build(points)
Build(idx, points) == [idx EXCEPT !.nodes = BuildRec(points, 0, <<>>, idx.dims)]

\* the side insert() descends to at a node: left when p is smaller on the axis
InsertGoesLeft(p, node) ==
    /\ HasCoord(p.vector, node.axis)
    /\ HasCoord(node.point.vector, node.axis)
    /\ p.vector[node.axis + 1] < node.point.vector[node.axis + 1]

RECURSIVE InsertPath(_, _, _)
InsertPath(nodes, p, path) ==
    IF path \notin DOMAIN nodes THEN path
    ELSE IF InsertGoesLeft(p, nodes[path]) THEN InsertPath(nodes, p, Append(path, 0))
    ELSE InsertPath(nodes, p, Append(path, 1))

\* insert(p)
Insert(idx, p) ==
    LET path == InsertPath(idx.nodes, p, <<>>)
    IN  [idx EXCEPT !.nodes = (path :> [point |-> p, axis |-> Len(path) % idx.dims]) @@ @]

\* removeById(id)
RemoveById(idx, id) == idx

\* pushTopKMin(arr, item, k)
DistBefore(a, b) == a.dist < b.dist

PushTopKMin(arr, item, k) ==
    LET sorted == InsertBy(arr, item, DistBefore)
    IN  IF Len(sorted) > k THEN SubSeq(sorted, 1, Len(sorted) - 1) ELSE sorted

\* pushTopKMax(arr, item, k)
ScoreBefore(a, b) == ScoreGreater(a.score, b.score)

PushTopKMax(arr, item, k) ==
    LET sorted == InsertBy(arr, item, ScoreBefore)
    IN  IF Len(sorted) > k THEN SubSeq(sorted, 1, Len(sorted) - 1) ELSE sorted

\* query[axis] - node.point.vector[axis] is a number (not NaN)
DiffDefined(query, node) ==
    HasCoord(query, node.axis) /\ HasCoord(node.point.vector, node.axis)

Diff(query, node) == query[node.axis + 1] - node.point.vector[node.axis + 1]

\* VisitFarEuclidean without its distance test: a full heap ends the search of
\* the far side
VisitFarWhenNotFull(heap, query, node, k) == Len(heap) < k

\* knnEuclidean: the far subtree is visited when the heap is not full or the
\* axis distance is below the worst kept distance
VisitFarEuclidean(heap, query, node, k) ==
    \/ Len(heap) < k
    \/ /\ DiffDefined(query, node)
       /\ Diff(query, node) * Diff(query, node) < heap[Len(heap)].dist

\* knnCosine: the far subtree is visited when the heap is not full or the
\* axis difference is not zero
VisitFarCosine(heap, query, node, k) ==
    \/ Len(heap) < k
    \/ (DiffDefined(query, node) /\ Diff(query, node) # 0)

\* diff < 0: the near child is the left one
NearIsLeft(query, node) == DiffDefined(query, node) /\ Diff(query, node) < 0

\* visit(node) of knnEuclidean; acc is [err, heap], err once a distance threw
RECURSIVE VisitEuclidean(_, _, _, _, _)
VisitEuclidean(nodes, path, query, k, acc) ==
    IF acc.err \/ path \notin DOMAIN nodes THEN acc
    ELSE
        LET node == nodes[path] IN
        IF DimMismatch(query, node.point.vector) THEN [acc EXCEPT !.err = TRUE]
        ELSE
            LET item == [id |-> node.point.id, dist |-> Dist2(query, node.point.vector)]
                pushed == [acc EXCEPT !.heap = PushTopKMin(acc.heap, item, k)]
                first == Append(path, IF NearIsLeft(query, node) THEN 0 ELSE 1)
                second == Append(path, IF NearIsLeft(query, node) THEN 1 ELSE 0)
                near == VisitEuclidean(nodes, first, query, k, pushed)
            IN  IF near.err THEN near
                ELSE IF VisitFarEuclidean(near.heap, query, node, k)
                     THEN VisitEuclidean(nodes, second, query, k, near)
                     ELSE near

\* knnEuclidean(query, k): [err, ids]
KnnEuclidean(idx, query, k) ==
    LET r == VisitEuclidean(idx.nodes, <<>>, query, k, [err |-> FALSE, heap |-> <<>>])
    IN  [err |-> r.err, ids |-> [i \in 1..Len(r.heap) |-> r.heap[i].id]]

\* visit(node) of knnCosine
RECURSIVE VisitCosine(_, _, _, _, _)
VisitCosine(nodes, path, query, k, acc) ==
    IF acc.err \/ path \notin DOMAIN nodes THEN acc
    ELSE
        LET node == nodes[path] IN
        IF CosineThrows(query, node.point.vector) THEN [acc EXCEPT !.err = TRUE]
        ELSE
            LET item == [id |-> node.point.id,
                         score |-> CosineSimilarity(query, node.point.vector)]
                pushed == [acc EXCEPT !.heap = PushTopKMax(acc.heap, item, k)]
                first == Append(path, IF NearIsLeft(query, node) THEN 0 ELSE 1)
                second == Append(path, IF NearIsLeft(query, node) THEN 1 ELSE 0)
                near == VisitCosine(nodes, first, query, k, pushed)
            IN  IF near.err THEN near
                ELSE IF VisitFarCosine(near.heap, query, node, k)
                     THEN VisitCosine(nodes, second, query, k, near)
                     ELSE near

\* knnCosine(query, k): [err, ids]
KnnCosine(idx, query, k) ==
    LET r == VisitCosine(idx.nodes, <<>>, query, k, [err |-> FALSE, heap |-> <<>>])
    IN  [err |-> r.err, ids |-> [i \in 1..Len(r.heap) |-> r.heap[i].id]]

(***************************************************************************)
(* VectorDB, the facade.                                                   *)
(***************************************************************************)
Overfetch == 3

\* the truthiness of this.dims
Truthy(d) == d # NoDims /\ d # 0

\* ensureDims(v) throws
EnsureDimsThrows(d, v) == d # NoDims /\ d # Len(v)

\* this.dims after an ensureDims(v) that returned
EnsureDims(d, v) == IF d = NoDims THEN Len(v) ELSE d

\* if (!this.index && this.dims) this.index = new KDTreeIndex(this.dims);
\* this.index?.insert(rec)
IndexInsert(idx, d, rec) ==
    LET i == IF ~idx.present /\ Truthy(d) THEN NewIndex(d) ELSE idx
    IN  IF i.present THEN Insert(i, rec) ELSE i

IndexInsertAll(idx, d, rows) ==
    LET F[i \in 0..Len(rows)] == IF i = 0 THEN idx ELSE IndexInsert(F[i - 1], d, rows[i])
    IN  F[Len(rows)]

\* Existing without its filter: every id asked for is taken as present
ExistingUnfiltered(mirror, ids) == ids

\* ids.filter((id) => this.inMemory.has(id))
Existing(mirror, ids) == SelectSeq(ids, LAMBDA id : MapHas(mirror, id))

\* MirrorDeleteAll without the delete: the mirror keeps the deleted records
MirrorDeleteNone(mirror, ids) == mirror

\* for (const id of existing) this.inMemory.delete(id)
MirrorDeleteAll(mirror, ids) ==
    LET F[i \in 0..Len(ids)] == IF i = 0 THEN mirror ELSE MapDelete(F[i - 1], ids[i])
    IN  F[Len(ids)]

\* MirrorSetAll with a list for the map: a record is pushed, never replaced
MirrorPushAll(mirror, rows) == mirror \o rows

\* this.inMemory.set(rid, rec) for every row
MirrorSetAll(mirror, rows) == MapSetAll(mirror, rows)

\* items.map(...): the rows of addBatch
Rows(items) == [i \in 1..Len(items) |-> RecordEntry(items[i].id, items[i].vector, items[i].meta)]

\* what a completed call leaves in obs: the call, its argument, its outcome,
\* count() before it, and the compaction it ran
Obs(op, arg, res, before, compaction) ==
    [op |-> op, arg |-> arg, err |-> res.err, val |-> res.val,
     countBefore |-> before, compaction |-> compaction]

\* the outcome of a call that returned val
Returned(val) == [err |-> "none", val |-> val]

\* the outcome of a call that threw err
Thrown(err) == [err |-> err, val |-> <<>>]

\* the candidates of a search: the index's answer, or every key of the mirror
Candidates(mirror, knn, present) ==
    IF present THEN knn
    ELSE [err |-> FALSE, ids |-> [i \in 1..Len(mirror) |-> mirror[i].id]]

\* the loop over the candidates, the sort and the slice of searchNearby
NearbyBefore(a, b) == a.distance < b.distance

RefineNearby(mirror, ids, query, k) ==
    LET live == SelectSeq(ids, LAMBDA id : MapHas(mirror, id))
    IN  IF \E i \in 1..Len(live) : DimMismatch(query, MapGet(mirror, live[i]).vector)
        THEN Thrown("DimensionMismatch")
        ELSE
            LET results == [i \in 1..Len(live) |->
                    LET rec == MapGet(mirror, live[i])
                    IN  [id |-> rec.id, distance |-> Dist2(query, rec.vector),
                         vector |-> rec.vector, meta |-> rec.meta]]
                sorted == SortBy(results, NearbyBefore)
            IN  Returned(SubSeq(sorted, 1, IF k < Len(sorted) THEN k ELSE Len(sorted)))

\* the loop over the candidates, the sort and the slice of searchSimilar
SimilarBefore(a, b) == ScoreGreater(a.score, b.score)

RefineSimilar(mirror, ids, query, k) ==
    LET live == SelectSeq(ids, LAMBDA id : MapHas(mirror, id))
    IN  IF \E i \in 1..Len(live) : CosineThrows(query, MapGet(mirror, live[i]).vector)
        THEN Thrown("DimensionMismatch")
        ELSE
            LET results == [i \in 1..Len(live) |->
                    LET rec == MapGet(mirror, live[i])
                    IN  [id |-> rec.id, score |-> CosineSimilarity(query, rec.vector),
                         vector |-> rec.vector, meta |-> rec.meta]]
                sorted == SortBy(results, SimilarBefore)
            IN  Returned(SubSeq(sorted, 1, IF k < Len(sorted) THEN k ELSE Len(sorted)))

\* searchNearby(query, k)
SearchNearbyResult(mirror, idx, d, query, k) ==
    IF ~Truthy(d) \/ Len(mirror) = 0 THEN Returned(<<>>)
    ELSE IF DimMismatch(query, mirror[1].vector) THEN Thrown("DimensionMismatch")
    ELSE
        LET cand == Candidates(mirror, KnnEuclidean(idx, query, k * Overfetch), idx.present)
        IN  IF cand.err THEN Thrown("DimensionMismatch")
            ELSE RefineNearby(mirror, cand.ids, query, k)

\* searchSimilar(query, k)
SearchSimilarResult(mirror, idx, d, query, k) ==
    IF ~Truthy(d) \/ Len(mirror) = 0 THEN Returned(<<>>)
    ELSE IF DimMismatch(query, mirror[1].vector) THEN Thrown("DimensionMismatch")
    ELSE
        LET cand == Candidates(mirror, KnnCosine(idx, query, k * Overfetch), idx.present)
        IN  IF cand.err THEN Thrown("DimensionMismatch")
            ELSE RefineSimilar(mirror, cand.ids, query, k)

(***************************************************************************)
(* What a call leaves behind for the properties to read.                   *)
(***************************************************************************)
\* the live view of the storage engine: scanAll, and get for every id
View(s) == [scan |-> Range(ScanAll(s)), get |-> [id \in KnnIds |-> Get(s, id)]]

NoCompaction == [happened |-> FALSE, before |-> <<>>, after |-> <<>>]

\* the views around maybeCompact() when flushMemtable() runs on s and merges
CompactionOf(s) ==
    IF Len(s.memtable) > 0 /\ CompactionDue(FlushWrite(s))
    THEN [happened |-> TRUE,
          before |-> View(FlushWrite(s)),
          after |-> View(MaybeCompact(FlushWrite(s)))]
    ELSE NoCompaction

\* the same for the flush check at the end of putBatch and deleteBatch
CompactionIfFull(s) ==
    IF Len(s.memtable) >= s.memtableFlushSize THEN CompactionOf(s) ELSE NoCompaction

(***************************************************************************)
(* RWLock.  The object is [readers, writer, readQueue, writeQueue].  A     *)
(* queued attempt closure is named by the caller whose request made it.    *)
(* A caller is [pc, mode, released, calls, queued, ahead]: pc is "idle"     *)
(* before its first request, "waiting" while its promise is pending,       *)
(* "holding" from the grant to the first call of release, "released" after *)
(* it; released is the flag of its release closure, calls counts the calls *)
(* of that closure; queued and ahead are history: whether its attempt was  *)
(* pushed on a queue, and the write requests that were queued when its own *)
(* request was queued and have not been granted since.                     *)
(* An attempt or a release yields [lock, granted]: the lock object after   *)
(* it and the callers whose promise it resolved.                           *)
(***************************************************************************)
Callers == 1..NumCallers

NewLock == [readers |-> 0, writer |-> FALSE, readQueue |-> <<>>, writeQueue |-> <<>>]

Idle == [pc |-> "idle", mode |-> "none", released |-> FALSE, calls |-> 0, queued |-> FALSE,
         ahead |-> {}]

Outcome(l, g) == [lock |-> l, granted |-> g]

ReadMayEnterIgnoringQueue(l) == ~l.writer

ReadMayEnter(l) == ~l.writer /\ Len(l.writeQueue) = 0

WriteMayEnter(l) == ~l.writer /\ l.readers = 0

ReadAttempt(l, p) ==
    IF ReadMayEnter(l)
    THEN Outcome([l EXCEPT !.readers = @ + 1], {p})
    ELSE Outcome([l EXCEPT !.readQueue = Append(@, p)], {})

WriteAttempt(l, p) ==
    IF WriteMayEnter(l)
    THEN Outcome([l EXCEPT !.writer = TRUE], {p})
    ELSE Outcome([l EXCEPT !.writeQueue = Append(@, p)], {})

Pop(queue) == [head |-> queue[Len(queue)], rest |-> SubSeq(queue, 1, Len(queue) - 1)]

Shift(queue) == [head |-> Head(queue), rest |-> Tail(queue)]

RECURSIVE DrainReaders(_)
DrainReaders(o) ==
    IF Len(o.lock.readQueue) = 0
    THEN o
    ELSE LET next == Shift(o.lock.readQueue)
             a == ReadAttempt([o.lock EXCEPT !.readQueue = next.rest], next.head)
         IN  DrainReaders(Outcome(a.lock, o.granted \cup a.granted))

WakeWriter(l) ==
    LET next == Shift(l.writeQueue)
    IN  WriteAttempt([l EXCEPT !.writeQueue = next.rest], next.head)

LastReaderNeverWakes(l) == FALSE

LastReaderWakes(l) == l.readers = 0 /\ Len(l.writeQueue) > 0

ReadRelease(l) ==
    LET l1 == [l EXCEPT !.readers = @ - 1]
    IN  IF LastReaderWakes(l1) THEN WakeWriter(l1) ELSE Outcome(l1, {})

WriteRelease(l) ==
    LET l1 == [l EXCEPT !.writer = FALSE]
    IN  IF Len(l1.writeQueue) > 0 THEN WakeWriter(l1) ELSE DrainReaders(Outcome(l1, {}))

NeverReleased(c) == FALSE

AlreadyReleased(c) == c.released

ReleaseOf(l, c) ==
    IF AlreadyReleased(c)
    THEN Outcome(l, {})
    ELSE IF c.mode = "read" THEN ReadRelease(l) ELSE WriteRelease(l)

WaitingWriters(pr) == {q \in DOMAIN pr : pr[q].pc = "waiting" /\ pr[q].mode = "write"}

Woken(pr, o) ==
    [q \in DOMAIN pr |->
        IF q \in o.granted
        THEN [pr[q] EXCEPT !.pc = "holding"]
        ELSE [pr[q] EXCEPT !.ahead = @ \ {g \in o.granted : pr[g].mode = "write"}]]

Requested(pr, p, mode, o) ==
    [pr EXCEPT ![p] = [pc |-> IF p \in o.granted THEN "holding" ELSE "waiting",
                       mode |-> mode, released |-> FALSE, calls |-> 0,
                       queued |-> p \notin o.granted,
                       ahead |-> IF p \in o.granted THEN {} ELSE WaitingWriters(pr)]]

ReleaseCalled(pr, p, o) ==
    [Woken(pr, o) EXCEPT ![p] = [@ EXCEPT !.pc = "released", !.released = TRUE,
                                          !.calls = @ + 1]]

NoCall == [op |-> "none", at |-> "idle", rows |-> <<>>, ids |-> <<>>, query |-> <<>>, k |-> 0]

(***************************************************************************)
(* The inputs of the calls.                                                *)
(***************************************************************************)
\* what one add stores: every vector without metadata, the longest also with
Payloads == {[vector |-> v, meta |-> NoMeta] : v \in Vectors}
             \cup {[vector |-> v, meta |-> m] : v \in {w \in Vectors : Len(w) > 1}, m \in Metas}

Items == [id : Ids, vector : Vectors, meta : {NoMeta}]

\* the empty batch, and the batches of two items whose first item has the first
\* id and a vector starting with 0 (one of each length)
Batches ==
    {<<>>} \cup {<<x, y>> : x \in {i \in Items : i.id = IdList[1] /\ i.vector[1] = 0},
                            y \in Items}

\* the empty list, the lists of one id, and the lists of two ids starting with
\* the first id
IdLists == {<<>>} \cup {<<x>> : x \in Ids} \cup {<<IdList[1], y>> : y \in Ids}

Ks == 1..MaxK

\* the WAL may take n more lines
Room(n) == Len(storage.wal) + n <= MaxWal

(***************************************************************************)
(* VectorDB.open on a directory: new VectorDB, storage.init(),             *)
(* rebuildIndex().  Init opens an empty directory.                         *)
(***************************************************************************)
\* rebuildIndex() on a new VectorDB: [inMemory, dims, index]
RebuildIndex(s) ==
    LET rows == ScanAll(s)
        d == IF Len(rows) > 0 THEN Len(rows[1].vector) ELSE NoDims
    IN  [inMemory |-> MapSetAll(<<>>, rows),
         dims |-> d,
         index |-> IF Truthy(d) THEN Build(NewIndex(d), rows) ELSE NoIndex]

Init ==
        /\ storage = StorageInit(<<>>, {}, FlushSize, CompactAt)
        /\ inMemory = RebuildIndex(storage).inMemory
        /\ dims = RebuildIndex(storage).dims
        /\ index = RebuildIndex(storage).index
        /\ obs = Obs("open", <<>>, Returned(<<>>), 0, NoCompaction)
        /\ firstD = NoDims
        /\ lastOf = [id \in Ids |-> "none"]
        /\ everAdded = {}
        /\ everDeleted = {}
        /\ lock = NewLock
        /\ proc = [p \in Callers |-> Idle]
        /\ call = [p \in Callers |-> NoCall]

\* The process ends without save() and the directory is opened again.
\* init(): the catch block ignores the error of the replay, so init() returns
InitOutcome(replay) == Returned(<<>>)

Open ==
    LET s == StorageInit(storage.wal, storage.dir,
                         storage.memtableFlushSize, storage.maxSSTablesBeforeCompact)
    IN  /\ storage' = s
        /\ inMemory' = RebuildIndex(s).inMemory
        /\ dims' = RebuildIndex(s).dims
        /\ index' = RebuildIndex(s).index
        /\ obs' = Obs("open", <<>>, InitOutcome(ReplayWAL(storage.wal)), Len(inMemory),
                      NoCompaction)
        /\ UNCHANGED <<firstD, lastOf, everAdded, everDeleted>>
        /\ UNCHANGED lockVars

(***************************************************************************)
(* add(vector, meta, id)                                                   *)
(***************************************************************************)
Add(vector, meta, id) ==
    /\ UNCHANGED lockVars
    /\ IF EnsureDimsThrows(dims, vector)
       THEN /\ obs' = Obs("add", Len(vector), Thrown("DimsMismatch"),
                          Len(inMemory), NoCompaction)
            /\ UNCHANGED <<storage, inMemory, index, dims, firstD, lastOf, everAdded, everDeleted>>
       ELSE LET rec == RecordEntry(id, vector, meta)
                d == EnsureDims(dims, vector)
            IN  /\ dims' = d
                /\ storage' = PutBatch(storage, <<rec>>)
                /\ inMemory' = MirrorSetAll(inMemory, <<rec>>)
                /\ index' = IndexInsert(index, d, rec)
                /\ obs' = Obs("add", Len(vector), Returned(id), Len(inMemory),
                              CompactionIfFull(PutApply(storage, <<rec>>)))
                /\ firstD' = IF firstD = NoDims THEN Len(vector) ELSE firstD
                /\ lastOf' = [lastOf EXCEPT ![id] = "add"]
                /\ everAdded' = everAdded \cup {id}
                /\ UNCHANGED everDeleted

(***************************************************************************)
(* addBatch(items)                                                         *)
(***************************************************************************)
AddBatch(items) ==
    /\ UNCHANGED lockVars
    /\ IF Len(items) = 0
       THEN /\ obs' = Obs("addBatch", 0, Returned(<<>>), Len(inMemory), NoCompaction)
            /\ UNCHANGED <<storage, inMemory, index, dims, firstD, lastOf, everAdded, everDeleted>>
       ELSE IF EnsureDimsThrows(dims, items[1].vector)
       THEN /\ obs' = Obs("addBatch", Len(items[1].vector), Thrown("DimsMismatch"),
                          Len(inMemory), NoCompaction)
            /\ UNCHANGED <<storage, inMemory, index, dims, firstD, lastOf, everAdded, everDeleted>>
       ELSE LET rows == Rows(items)
                d == EnsureDims(dims, items[1].vector)
            IN  /\ dims' = d
                /\ storage' = PutBatch(storage, rows)
                /\ inMemory' = MirrorSetAll(inMemory, rows)
                /\ index' = IndexInsertAll(index, d, rows)
                /\ obs' = Obs("addBatch", Len(items[1].vector),
                              Returned([i \in 1..Len(rows) |-> rows[i].id]),
                              Len(inMemory), CompactionIfFull(PutApply(storage, rows)))
                /\ firstD' = IF firstD = NoDims THEN Len(items[1].vector) ELSE firstD
                /\ lastOf' = [id \in Ids |-> IF \E i \in 1..Len(items) : items[i].id = id THEN "add" ELSE lastOf[id]]
                /\ everAdded' = everAdded \cup {rows[i].id : i \in 1..Len(rows)}
                /\ UNCHANGED everDeleted

(***************************************************************************)
(* delete(id)                                                              *)
(***************************************************************************)
Delete(id) ==
    /\ UNCHANGED lockVars
    /\ IF ~MapHas(inMemory, id)
       THEN /\ obs' = Obs("delete", id, Returned(FALSE), Len(inMemory), NoCompaction)
            /\ UNCHANGED <<storage, inMemory, index, dims, firstD, lastOf, everAdded, everDeleted>>
       ELSE /\ storage' = StorageDeleteBatch(storage, <<id>>)
            /\ inMemory' = MirrorDeleteAll(inMemory, <<id>>)
            /\ index' = RemoveById(index, id)
            /\ obs' = Obs("delete", id, Returned(TRUE), Len(inMemory),
                          CompactionIfFull(DeleteApply(storage, <<id>>)))
            /\ lastOf' = [lastOf EXCEPT ![id] = "del"]
            /\ everDeleted' = everDeleted \cup {id}
            /\ UNCHANGED <<dims, firstD, everAdded>>

(***************************************************************************)
(* deleteBatch(ids)                                                        *)
(***************************************************************************)
DeleteBatch(ids) ==
    /\ UNCHANGED lockVars
    /\ LET existing == Existing(inMemory, ids) IN
       IF Len(ids) = 0 \/ Len(existing) = 0
       THEN /\ obs' = Obs("deleteBatch", ids, Returned(0), Len(inMemory), NoCompaction)
            /\ UNCHANGED <<storage, inMemory, index, dims, firstD, lastOf, everAdded, everDeleted>>
       ELSE /\ storage' = StorageDeleteBatch(storage, existing)
            /\ inMemory' = MirrorDeleteAll(inMemory, existing)
            /\ index' = index
            /\ obs' = Obs("deleteBatch", ids, Returned(Len(existing)), Len(inMemory),
                          CompactionIfFull(DeleteApply(storage, existing)))
            /\ lastOf' = [id \in Ids |-> IF id \in Range(existing) THEN "del" ELSE lastOf[id]]
            /\ everDeleted' = everDeleted \cup Range(existing)
            /\ UNCHANGED <<dims, firstD, everAdded>>

(***************************************************************************)
(* searchSimilar(query, k), searchNearby(query, k), count(), save()        *)
(***************************************************************************)
SearchSimilar(query, k) ==
    /\ obs' = Obs("searchSimilar", [query |-> query, k |-> k],
                  SearchSimilarResult(inMemory, index, dims, query, k),
                  Len(inMemory), NoCompaction)
    /\ UNCHANGED <<storage, inMemory, index, dims, firstD, lastOf, everAdded, everDeleted>>
    /\ UNCHANGED lockVars

SearchNearby(query, k) ==
    /\ obs' = Obs("searchNearby", [query |-> query, k |-> k],
                  SearchNearbyResult(inMemory, index, dims, query, k),
                  Len(inMemory), NoCompaction)
    /\ UNCHANGED <<storage, inMemory, index, dims, firstD, lastOf, everAdded, everDeleted>>
    /\ UNCHANGED lockVars

Count ==
    /\ obs' = Obs("count", <<>>, Returned(Len(inMemory)), Len(inMemory), NoCompaction)
    /\ UNCHANGED <<storage, inMemory, index, dims, firstD, lastOf, everAdded, everDeleted>>
    /\ UNCHANGED lockVars

Save ==
    /\ storage' = FlushMemtable(storage)
    /\ obs' = Obs("save", <<>>, Returned(<<>>), Len(inMemory), CompactionOf(storage))
    /\ UNCHANGED <<inMemory, index, dims, firstD, lastOf, everAdded, everDeleted>>
    /\ UNCHANGED lockVars

DoAdd ==
    \E p \in Payloads, id \in Ids :
        /\ EnsureDimsThrows(dims, p.vector) \/ Room(1)
        /\ Add(p.vector, p.meta, id)

DoAddBatch ==
    \E items \in Batches :
        /\ IF Len(items) = 0 THEN TRUE
           ELSE EnsureDimsThrows(dims, items[1].vector) \/ Room(Len(items))
        /\ AddBatch(items)

DoDelete ==
    \E id \in Ids :
        /\ ~MapHas(inMemory, id) \/ Room(1)
        /\ Delete(id)

DoDeleteBatch ==
    \E ids \in IdLists :
        /\ Room(Len(Existing(inMemory, ids)))
        /\ DeleteBatch(ids)

DoSearchSimilar == \E q \in Vectors, k \in Ks : SearchSimilar(q, k)

DoSearchNearby == \E q \in Vectors, k \in Ks : SearchNearby(q, k)

\* The store without its read-only calls but count().
Next ==
    \/ DoAdd
    \/ DoAddBatch
    \/ DoDelete
    \/ DoDeleteBatch
    \/ Count
    \/ Save
    \/ Open

Spec == Init /\ [][Next]_vars

\* The store with its searches; nothing here calls save().
NextSearch ==
    \/ DoAdd
    \/ DoAddBatch
    \/ DoDelete
    \/ DoDeleteBatch
    \/ DoSearchSimilar
    \/ DoSearchNearby
    \/ Open

SpecSearch == Init /\ [][NextSearch]_vars

\* The store driven by its single-record calls and its searches only.
NextSingle ==
    \/ DoAdd
    \/ DoDelete
    \/ DoSearchSimilar
    \/ DoSearchNearby
    \/ Open

SpecSingle == Init /\ [][NextSingle]_vars

(***************************************************************************)
(* A store populated by adds of records with distinct ids, all of one      *)
(* dimensionality, and searched by distance.  The n-th add uses the n-th   *)
(* id.                                                                     *)
(***************************************************************************)
\* the points of a 3 x 2 grid
KnnVectors == {<<x, y>> : x \in 0..2, y \in 0..1}

InitKnn ==
    /\ storage = StorageInit(<<>>, {}, FlushSize, CompactAt)
    /\ inMemory = RebuildIndex(storage).inMemory
    /\ dims = RebuildIndex(storage).dims
    /\ index = RebuildIndex(storage).index
    /\ obs = Obs("open", <<>>, Returned(<<>>), 0, NoCompaction)
    /\ firstD = NoDims
    /\ lastOf = [id \in KnnIds |-> "none"]
    /\ everAdded = {}
    /\ everDeleted = {}
    /\ lock = NewLock
    /\ proc = [p \in Callers |-> Idle]
    /\ call = [p \in Callers |-> NoCall]

DoAddFresh ==
    /\ Len(inMemory) < KnnMaxAdds
    /\ Len(inMemory) < Len(IdOrder)
    /\ \E v \in KnnVectors : Add(v, NoMeta, IdOrder[Len(inMemory) + 1])

DoSearchGrid == \E q \in KnnVectors, k \in Ks : SearchNearby(q, k)

NextKnn ==
    \/ DoAddFresh
    \/ DoSearchGrid

SpecKnn == InitKnn /\ [][NextKnn]_vars

(***************************************************************************)
(* A fresh directory that takes sequential adds of distinct ids and        *)
(* save(); it is never opened again.  The n-th add uses the n-th id.       *)
(***************************************************************************)
FreshVectors == {<<0>>, <<1>>}

DoPutFresh ==
    /\ Len(storage.wal) < FreshMaxAdds
    /\ Len(storage.wal) < Len(IdOrder)
    /\ \E v \in FreshVectors, m \in Metas : Add(v, m, IdOrder[Len(storage.wal) + 1])

NextFresh ==
    \/ DoPutFresh
    \/ Save
    \/ Count

SpecFresh == InitKnn /\ [][NextFresh]_vars

(***************************************************************************)
(* A store whose ids are added, deleted and added again, with vectors of   *)
(* one dimensionality, and searched for more than one result.              *)
(***************************************************************************)
ChurnRoom(n) == Len(storage.wal) + n <= ChurnMaxWal

\* the first id with either vector, the other ids with the second vector
ChurnItems ==
    {x \in [id : Ids, vector : FreshVectors, meta : {NoMeta}] :
        x.id = IdList[1] \/ x.vector = <<1>>}

ChurnBatches == {<<x, y>> : x \in ChurnItems, y \in ChurnItems}

DoChurnAdd ==
    \E x \in ChurnItems :
        /\ ChurnRoom(1)
        /\ Add(x.vector, x.meta, x.id)

DoChurnAddBatch ==
    \E items \in ChurnBatches :
        /\ ChurnRoom(Len(items))
        /\ AddBatch(items)

DoChurnDelete ==
    \E id \in Ids :
        /\ ~MapHas(inMemory, id) \/ ChurnRoom(1)
        /\ Delete(id)

DoChurnDeleteBatch ==
    \E ids \in IdLists :
        /\ ChurnRoom(Len(Existing(inMemory, ids)))
        /\ DeleteBatch(ids)

DoChurnSearchSimilar == \E q \in FreshVectors, k \in 1..ChurnK : SearchSimilar(q, k)

DoChurnSearchNearby == \E q \in FreshVectors, k \in 1..ChurnK : SearchNearby(q, k)

NextChurn ==
    \/ DoChurnAdd
    \/ DoChurnAddBatch
    \/ DoChurnDelete
    \/ DoChurnDeleteBatch
    \/ DoChurnSearchSimilar
    \/ DoChurnSearchNearby

SpecChurn == Init /\ [][NextChurn]_vars

(***************************************************************************)
(* A store whose file system can fail: a write call of add, addBatch,      *)
(* delete or deleteBatch throws at one of the file system calls it         *)
(* reaches; the error passes through the finally block to the caller.      *)
(***************************************************************************)
Failed(op, arg) == Obs(op, arg, Thrown("StorageError"), Len(inMemory), NoCompaction)

AddFails(vector, meta, id, at) ==
    LET rec == RecordEntry(id, vector, meta)
    IN  /\ ~EnsureDimsThrows(dims, vector)
        /\ at \in FailPoints(PutApply(storage, <<rec>>))
        /\ dims' = EnsureDims(dims, vector)
        /\ storage' = FailedAt(storage, PutApply(storage, <<rec>>), at)
        /\ obs' = Failed("add", Len(vector))
        /\ UNCHANGED <<inMemory, index, firstD, lastOf, everAdded, everDeleted>>
        /\ UNCHANGED lockVars

AddBatchFails(items, at) ==
    LET rows == Rows(items)
    IN  /\ Len(items) > 0
        /\ ~EnsureDimsThrows(dims, items[1].vector)
        /\ at \in FailPoints(PutApply(storage, rows))
        /\ dims' = EnsureDims(dims, items[1].vector)
        /\ storage' = FailedAt(storage, PutApply(storage, rows), at)
        /\ obs' = Failed("addBatch", Len(items[1].vector))
        /\ UNCHANGED <<inMemory, index, firstD, lastOf, everAdded, everDeleted>>
        /\ UNCHANGED lockVars

DeleteFails(id, at) ==
    /\ MapHas(inMemory, id)
    /\ at \in FailPoints(DeleteApply(storage, <<id>>))
    /\ storage' = FailedAt(storage, DeleteApply(storage, <<id>>), at)
    /\ obs' = Failed("delete", id)
    /\ UNCHANGED <<inMemory, index, dims, firstD, lastOf, everAdded, everDeleted>>
    /\ UNCHANGED lockVars

DeleteBatchFails(ids, at) ==
    LET existing == Existing(inMemory, ids)
    IN  /\ Len(existing) > 0
        /\ at \in FailPoints(DeleteApply(storage, existing))
        /\ storage' = FailedAt(storage, DeleteApply(storage, existing), at)
        /\ obs' = Failed("deleteBatch", ids)
        /\ UNCHANGED <<inMemory, index, dims, firstD, lastOf, everAdded, everDeleted>>
        /\ UNCHANGED lockVars

Steps == {"append", "flush", "compact"}

DoAddFails ==
    \E p \in Payloads, id \in Ids, at \in Steps :
        /\ at = "append" \/ Room(1)
        /\ AddFails(p.vector, p.meta, id, at)

DoAddBatchFails ==
    \E items \in Batches, at \in Steps :
        /\ at = "append" \/ Room(Len(items))
        /\ AddBatchFails(items, at)

DoDeleteFails ==
    \E id \in Ids, at \in Steps :
        /\ at = "append" \/ Room(1)
        /\ DeleteFails(id, at)

DoDeleteBatchFails ==
    \E ids \in IdLists, at \in Steps :
        /\ at = "append" \/ Room(Len(ids))
        /\ DeleteBatchFails(ids, at)

NextFailing ==
    \/ DoAdd
    \/ DoDelete
    \/ DoAddFails
    \/ DoAddBatchFails
    \/ DoDeleteFails
    \/ DoDeleteBatchFails
    \/ Open

SpecFailing == Init /\ [][NextFailing]_vars

(***************************************************************************)
(* A directory whose wal.jsonl can be damaged: a line that is not JSON is  *)
(* left at its end, as by a process that died while appending.             *)
(***************************************************************************)
Damage ==
    /\ Room(1)
    /\ storage' = [storage EXCEPT !.wal = Append(@, Garbage)]
    /\ UNCHANGED <<inMemory, index, dims, obs, firstD, lastOf, everAdded, everDeleted>>
    /\ UNCHANGED lockVars

NextDamaged ==
    \/ DoAdd
    \/ DoDelete
    \/ Damage
    \/ Open

SpecDamaged == Init /\ [][NextDamaged]_vars

(***************************************************************************)
(* The lock alone, used by callers that request a permit, release it, may  *)
(* call its release function again, and come back with a new request.      *)
(***************************************************************************)
storeVars == <<storage, inMemory, index, dims, obs, firstD, lastOf, everAdded, everDeleted>>

ReadLock(p) ==
    /\ proc[p].pc \in {"idle", "released"}
    /\ LET o == ReadAttempt(lock, p)
       IN  /\ lock' = o.lock
           /\ proc' = Requested(proc, p, "read", o)
    /\ UNCHANGED <<storeVars, call>>

WriteLock(p) ==
    /\ proc[p].pc \in {"idle", "released"}
    /\ LET o == WriteAttempt(lock, p)
       IN  /\ lock' = o.lock
           /\ proc' = Requested(proc, p, "write", o)
    /\ UNCHANGED <<storeVars, call>>

ReleaseCall(p) ==
    /\ proc[p].calls < MaxReleaseCalls
    /\ LET o == ReleaseOf(lock, proc[p])
       IN  /\ lock' = o.lock
           /\ proc' = ReleaseCalled(proc, p, o)
    /\ UNCHANGED <<storeVars, call>>

Release(p) ==
    /\ proc[p].pc = "holding"
    /\ ReleaseCall(p)

ReleaseAgain(p) ==
    /\ proc[p].pc = "released"
    /\ ReleaseCall(p)

NextLock ==
    \/ \E p \in Callers : ReadLock(p)
    \/ \E p \in Callers : WriteLock(p)
    \/ \E p \in Callers : Release(p)
    \/ \E p \in Callers : ReleaseAgain(p)

SpecLock == Init /\ [][NextLock]_vars

\* every granted permit is eventually released
SpecLockFair == SpecLock /\ \A p \in Callers : WF_vars(Release(p))

(***************************************************************************)
(* The public calls of one VectorDB object issued concurrently by clients. *)
(* A call runs up to its first await in one step: the code before the lock *)
(* request and the request itself, whose attempt runs synchronously.  It   *)
(* resumes when the permit is granted, suspends again at the await of its  *)
(* storage call, and runs from there to its return, through the finally    *)
(* block that releases the permit.  call[p] is [op, at, rows, ids, query,  *)
(* k]: the call client p is in, the await it is suspended at ("locking",   *)
(* "stored") and the locals it resumes with.  The history variables and    *)
(* the compaction of an observation are not kept here.                     *)
(***************************************************************************)
Clients == 1..NumClients

history == <<firstD, lastOf, everAdded, everDeleted>>

Suspended(op, rows, ids, query, k) ==
    [op |-> op, at |-> "locking", rows |-> rows, ids |-> ids, query |-> query, k |-> k]

RECURSIVE PendingLines(_)
PendingLines(ps) ==
    IF ps = {} THEN 0
    ELSE LET p == CHOOSE q \in ps : TRUE
         IN  (IF call[p].at = "locking" THEN Len(call[p].rows) + Len(call[p].ids) ELSE 0)
             + PendingLines(ps \ {p})

\* the WAL may take n more lines, on top of those of the calls that wait for the lock
ClientRoom(n) == Len(storage.wal) + PendingLines(Clients) + n <= ClientMaxWal

Free(p) == call[p].op = "none" /\ proc[p].pc \in {"idle", "released"}

AlwaysReadPermit(op) == "read"

\* the permit a call asks for: this.lock.readLock() or this.lock.writeLock()
PermitOf(op) == IF op \in {"searchSimilar", "searchNearby", "count"} THEN "read" ELSE "write"

\* const release = await this.lock.readLock() / writeLock(), up to the await
Acquire(p, c) ==
    LET o == IF PermitOf(c.op) = "read" THEN ReadAttempt(lock, p) ELSE WriteAttempt(lock, p)
    IN  /\ lock' = o.lock
        /\ proc' = Requested(proc, p, PermitOf(c.op), o)
        /\ call' = [call EXCEPT ![p] = c]

\* the call of p continues after the await it is suspended at
Resumed(p, op, at) == call[p].op = op /\ call[p].at = at /\ proc[p].pc = "holding"

\* await this.storage.putBatch(...) / deleteBatch(...)
Stored(p, ids) ==
    /\ call' = [call EXCEPT ![p] = [@ EXCEPT !.at = "stored", !.ids = ids]]
    /\ UNCHANGED <<lock, proc>>

\* finally { release() } and the return
ReleaseAndReturn(p) ==
    LET o == ReleaseOf(lock, proc[p])
    IN  /\ lock' = o.lock
        /\ proc' = ReleaseCalled(proc, p, o)
        /\ call' = [call EXCEPT ![p] = NoCall]

Observed(op, arg, res) == Obs(op, arg, res, Len(inMemory), NoCompaction)

CallAdd(p, vector, meta, id) ==
    /\ Free(p)
    /\ IF EnsureDimsThrows(dims, vector)
       THEN /\ obs' = Observed("add", Len(vector), Thrown("DimsMismatch"))
            /\ UNCHANGED <<dims, lockVars>>
       ELSE /\ ClientRoom(1)
            /\ dims' = EnsureDims(dims, vector)
            /\ Acquire(p, Suspended("add", <<RecordEntry(id, vector, meta)>>, <<>>, <<>>, 0))
            /\ UNCHANGED obs
    /\ UNCHANGED <<storage, inMemory, index, history>>

AddStored(p) ==
    /\ Resumed(p, "add", "locking")
    /\ storage' = PutBatch(storage, call[p].rows)
    /\ Stored(p, <<>>)
    /\ UNCHANGED <<inMemory, index, dims, obs, history>>

AddReturn(p) ==
    /\ Resumed(p, "add", "stored")
    /\ inMemory' = MirrorSetAll(inMemory, call[p].rows)
    /\ index' = IndexInsert(index, dims, call[p].rows[1])
    /\ obs' = Observed("add", Len(call[p].rows[1].vector), Returned(call[p].rows[1].id))
    /\ ReleaseAndReturn(p)
    /\ UNCHANGED <<storage, dims, history>>

CallAddBatch(p, items) ==
    /\ Free(p)
    /\ IF Len(items) = 0
       THEN /\ obs' = Observed("addBatch", 0, Returned(<<>>))
            /\ UNCHANGED <<dims, lockVars>>
       ELSE IF EnsureDimsThrows(dims, items[1].vector)
       THEN /\ obs' = Observed("addBatch", Len(items[1].vector), Thrown("DimsMismatch"))
            /\ UNCHANGED <<dims, lockVars>>
       ELSE /\ ClientRoom(Len(items))
            /\ dims' = EnsureDims(dims, items[1].vector)
            /\ Acquire(p, Suspended("addBatch", Rows(items), <<>>, <<>>, 0))
            /\ UNCHANGED obs
    /\ UNCHANGED <<storage, inMemory, index, history>>

AddBatchStored(p) ==
    /\ Resumed(p, "addBatch", "locking")
    /\ storage' = PutBatch(storage, call[p].rows)
    /\ Stored(p, <<>>)
    /\ UNCHANGED <<inMemory, index, dims, obs, history>>

AddBatchReturn(p) ==
    /\ Resumed(p, "addBatch", "stored")
    /\ inMemory' = MirrorSetAll(inMemory, call[p].rows)
    /\ index' = IndexInsertAll(index, dims, call[p].rows)
    /\ obs' = Observed("addBatch", Len(call[p].rows[1].vector),
                       Returned([i \in 1..Len(call[p].rows) |-> call[p].rows[i].id]))
    /\ ReleaseAndReturn(p)
    /\ UNCHANGED <<storage, dims, history>>

CallDelete(p, id) ==
    /\ Free(p)
    /\ ClientRoom(1)
    /\ Acquire(p, Suspended("delete", <<>>, <<id>>, <<>>, 0))
    /\ UNCHANGED <<storage, inMemory, index, dims, obs, history>>

DeleteStored(p) ==
    /\ Resumed(p, "delete", "locking")
    /\ IF ~MapHas(inMemory, call[p].ids[1])
       THEN /\ obs' = Observed("delete", call[p].ids[1], Returned(FALSE))
            /\ ReleaseAndReturn(p)
            /\ UNCHANGED storage
       ELSE /\ storage' = StorageDeleteBatch(storage, call[p].ids)
            /\ Stored(p, call[p].ids)
            /\ UNCHANGED obs
    /\ UNCHANGED <<inMemory, index, dims, history>>

DeleteReturn(p) ==
    /\ Resumed(p, "delete", "stored")
    /\ inMemory' = MirrorDeleteAll(inMemory, call[p].ids)
    /\ index' = RemoveById(index, call[p].ids[1])
    /\ obs' = Observed("delete", call[p].ids[1], Returned(TRUE))
    /\ ReleaseAndReturn(p)
    /\ UNCHANGED <<storage, dims, history>>

CallDeleteBatch(p, ids) ==
    /\ Free(p)
    /\ IF Len(ids) = 0
       THEN /\ obs' = Observed("deleteBatch", ids, Returned(0))
            /\ UNCHANGED lockVars
       ELSE /\ ClientRoom(Len(ids))
            /\ Acquire(p, Suspended("deleteBatch", <<>>, ids, <<>>, 0))
            /\ UNCHANGED obs
    /\ UNCHANGED <<storage, inMemory, index, dims, history>>

DeleteBatchStored(p) ==
    /\ Resumed(p, "deleteBatch", "locking")
    /\ LET existing == Existing(inMemory, call[p].ids)
       IN  IF Len(existing) = 0
           THEN /\ obs' = Observed("deleteBatch", call[p].ids, Returned(0))
                /\ ReleaseAndReturn(p)
                /\ UNCHANGED storage
           ELSE /\ storage' = StorageDeleteBatch(storage, existing)
                /\ Stored(p, existing)
                /\ UNCHANGED obs
    /\ UNCHANGED <<inMemory, index, dims, history>>

DeleteBatchReturn(p) ==
    /\ Resumed(p, "deleteBatch", "stored")
    /\ inMemory' = MirrorDeleteAll(inMemory, call[p].ids)
    /\ index' = index
    /\ obs' = Observed("deleteBatch", call[p].ids, Returned(Len(call[p].ids)))
    /\ ReleaseAndReturn(p)
    /\ UNCHANGED <<storage, dims, history>>

CallSave(p) ==
    /\ Free(p)
    /\ Acquire(p, Suspended("save", <<>>, <<>>, <<>>, 0))
    /\ UNCHANGED <<storage, inMemory, index, dims, obs, history>>

SaveReturn(p) ==
    /\ Resumed(p, "save", "locking")
    /\ storage' = FlushMemtable(storage)
    /\ obs' = Observed("save", <<>>, Returned(<<>>))
    /\ ReleaseAndReturn(p)
    /\ UNCHANGED <<inMemory, index, dims, history>>

CallCount(p) ==
    /\ Free(p)
    /\ Acquire(p, Suspended("count", <<>>, <<>>, <<>>, 0))
    /\ UNCHANGED <<storage, inMemory, index, dims, obs, history>>

CountReturn(p) ==
    /\ Resumed(p, "count", "locking")
    /\ obs' = Observed("count", <<>>, Returned(Len(inMemory)))
    /\ ReleaseAndReturn(p)
    /\ UNCHANGED <<storage, inMemory, index, dims, history>>

\* the two lines of a search before its lock request: the emptiness check and
\* assertSameDim against the first record of the mirror
BeforeLock(mirror, d, query) ==
    IF ~Truthy(d) \/ Len(mirror) = 0 THEN Returned(<<>>)
    ELSE IF DimMismatch(query, mirror[1].vector) THEN Thrown("DimensionMismatch")
    ELSE Returned("continue")

\* the try block of searchNearby
NearbyUnderLock(mirror, idx, query, k) ==
    LET cand == Candidates(mirror, KnnEuclidean(idx, query, k * Overfetch), idx.present)
    IN  IF cand.err THEN Thrown("DimensionMismatch")
        ELSE RefineNearby(mirror, cand.ids, query, k)

\* the try block of searchSimilar
SimilarUnderLock(mirror, idx, query, k) ==
    LET cand == Candidates(mirror, KnnCosine(idx, query, k * Overfetch), idx.present)
    IN  IF cand.err THEN Thrown("DimensionMismatch")
        ELSE RefineSimilar(mirror, cand.ids, query, k)

CallSearch(p, op, query, k) ==
    /\ Free(p)
    /\ IF BeforeLock(inMemory, dims, query) # Returned("continue")
       THEN /\ obs' = Observed(op, [query |-> query, k |-> k], BeforeLock(inMemory, dims, query))
            /\ UNCHANGED lockVars
       ELSE /\ Acquire(p, Suspended(op, <<>>, <<>>, query, k))
            /\ UNCHANGED obs
    /\ UNCHANGED <<storage, inMemory, index, dims, history>>

CallSearchNearby(p, query, k) == CallSearch(p, "searchNearby", query, k)

CallSearchSimilar(p, query, k) == CallSearch(p, "searchSimilar", query, k)

SearchNearbyReturn(p) ==
    /\ Resumed(p, "searchNearby", "locking")
    /\ obs' = Observed("searchNearby", [query |-> call[p].query, k |-> call[p].k],
                       NearbyUnderLock(inMemory, index, call[p].query, call[p].k))
    /\ ReleaseAndReturn(p)
    /\ UNCHANGED <<storage, inMemory, index, dims, history>>

SearchSimilarReturn(p) ==
    /\ Resumed(p, "searchSimilar", "locking")
    /\ obs' = Observed("searchSimilar", [query |-> call[p].query, k |-> call[p].k],
                       SimilarUnderLock(inMemory, index, call[p].query, call[p].k))
    /\ ReleaseAndReturn(p)
    /\ UNCHANGED <<storage, inMemory, index, dims, history>>

NextClients ==
    \/ \E p \in Clients, x \in Payloads, id \in Ids : CallAdd(p, x.vector, x.meta, id)
    \/ \E p \in Clients : AddStored(p)
    \/ \E p \in Clients : AddReturn(p)
    \/ \E p \in Clients, items \in Batches : CallAddBatch(p, items)
    \/ \E p \in Clients : AddBatchStored(p)
    \/ \E p \in Clients : AddBatchReturn(p)
    \/ \E p \in Clients, id \in Ids : CallDelete(p, id)
    \/ \E p \in Clients : DeleteStored(p)
    \/ \E p \in Clients : DeleteReturn(p)
    \/ \E p \in Clients, ids \in IdLists : CallDeleteBatch(p, ids)
    \/ \E p \in Clients : DeleteBatchStored(p)
    \/ \E p \in Clients : DeleteBatchReturn(p)
    \/ \E p \in Clients : CallSave(p)
    \/ \E p \in Clients : SaveReturn(p)
    \/ \E p \in Clients : CallCount(p)
    \/ \E p \in Clients : CountReturn(p)
    \/ \E p \in Clients, q \in Vectors, k \in Ks : CallSearchNearby(p, q, k)
    \/ \E p \in Clients : SearchNearbyReturn(p)
    \/ \E p \in Clients, q \in Vectors, k \in Ks : CallSearchSimilar(p, q, k)
    \/ \E p \in Clients : SearchSimilarReturn(p)

SpecClients == Init /\ [][NextClients]_vars

(***************************************************************************)
(* Properties.                                                             *)
(***************************************************************************)
Searches == {"searchSimilar", "searchNearby"}

\* the ids whose latest successful operation is an add
LiveIds == {id \in Ids : lastOf[id] = "add"}

\* the mirror of a store opened now on the directory
Reopened ==
    RebuildIndex(StorageInit(storage.wal, storage.dir, storage.memtableFlushSize,
                             storage.maxSSTablesBeforeCompact)).inMemory

\* C1 (durability): after any completed adds and deletes, with the flushes and
\* compactions they trigger and without save(), a store opened on the same
\* directory holds exactly the records (id, vector, metadata) that the running
\* store holds.
C1_Durability == Range(Reopened) = Range(inMemory)

\* C1 witness: the directory was opened again after a flush, a compaction and a
\* delete, and records are live.
C1_Witness ==
    /\ obs.op = "open"
    /\ Len(inMemory) > 0
    /\ storage.tombstones # {}
    /\ \E f \in storage.dir : f.name.compact

\* C2 (compaction preserves semantics): whenever maybeCompact() merges, scanAll()
\* and get(id) for every id answer the same right before and right after it.
C2_CompactionPreservesView ==
    obs.compaction.happened => obs.compaction.before = obs.compaction.after

\* C3 (deletion visibility): no search result holds an id whose latest
\* successful operation is a delete, although the KD-tree keeps its node.
C3_DeletedNeverReturned ==
    (obs.op \in Searches /\ obs.err = "none")
        => \A i \in 1..Len(obs.val) : lastOf[obs.val[i].id] # "del"

\* C3 witness: a search returned records while the tree held the node of a
\* deleted id.
C3_Witness ==
    /\ obs.op \in Searches
    /\ obs.err = "none"
    /\ Len(obs.val) > 0
    /\ \E p \in DOMAIN index.nodes : lastOf[index.nodes[p].point.id] = "del"

\* C4 as claimed: count() is the number of distinct ids added minus the number
\* of distinct ids successfully deleted.
C4_CountIsAddedMinusDeleted ==
    obs.op = "count" => obs.val = Cardinality(everAdded) - Cardinality(everDeleted)

\* C4 as amended: count() is the number of distinct ids whose latest successful
\* add or delete is an add.
C4_CountIsLiveIds == obs.op = "count" => obs.val = Cardinality(LiveIds)

\* C4 witness: count() answered 1 for a store whose only id was added, deleted
\* and added again.
C4_Witness ==
    /\ obs.op = "count"
    /\ obs.val = 1
    /\ Cardinality(everAdded) = 1
    /\ everDeleted = everAdded

\* C5 (dimension check on add): once a successful add has fixed D, an add of a
\* vector of another length throws and changes nothing, for the whole life of
\* the directory.
C5_AddRejectsOtherDims ==
    [][(obs'.op = "add" /\ firstD # NoDims /\ obs'.arg # firstD)
          => (obs'.err = "DimsMismatch" /\ UNCHANGED <<storage, inMemory, index, dims>>)]_vars

\* the records of the live ids, wherever they are held
HeldRecords ==
    Range(inMemory) \cup Range(storage.memtable)
        \cup UNION {Range(f.content) : f \in storage.dir}
        \cup {index.nodes[p].point : p \in DOMAIN index.nodes}

\* C6 (single dimensionality): all live records, in the mirror, the memtable,
\* the segments and the KD-tree, have one vector length.
C6_SingleDimensionality ==
    \A r, q \in {h \in HeldRecords : MapHas(inMemory, h.id)} : Len(r.vector) = Len(q.vector)

\* C7 (dimension check on search): once a successful add has fixed D, a search
\* with a query of another length throws, in every state of the store.
C7_SearchRejectsOtherDims ==
    (obs.op \in Searches /\ firstD # NoDims /\ Len(obs.arg.query) # firstD)
        => obs.err = "DimensionMismatch"

\* the ids of the WAL lines a step appends
AppendedIds == {storage'.wal[i].id : i \in (Len(storage.wal) + 1)..Len(storage'.wal)}

\* C8 (unknown-id deletes): delete(id) of an id that is not live returns false
\* and changes nothing; deleteBatch writes no WAL line and no tombstone for
\* such ids, removes only live ids, and changes nothing when no id is live.
C8_UnknownDeletesChangeNothing ==
    [][/\ (obs'.op = "delete" /\ ~MapHas(inMemory, obs'.arg))
            => /\ obs'.err = "none"
               /\ obs'.val = FALSE
               /\ UNCHANGED <<storage, inMemory, index, dims>>
       /\ obs'.op = "deleteBatch"
            => LET unknown == Range(obs'.arg) \ MapKeys(inMemory)
               IN  /\ obs'.err = "none"
                   /\ AppendedIds \cap unknown = {}
                   /\ storage'.tombstones \cap unknown = storage.tombstones \cap unknown
                   /\ MapKeys(inMemory') = MapKeys(inMemory) \ Range(obs'.arg)
                   /\ Range(obs'.arg) \subseteq unknown
                        => /\ obs'.val = 0
                           /\ UNCHANGED <<storage, inMemory, index, dims>>]_vars

\* C8 witness: a deleteBatch of one live and one unknown id has run.
C8_Witness ==
    /\ obs.op = "deleteBatch"
    /\ Len(obs.arg) = 2
    /\ obs.arg[1] # obs.arg[2]
    /\ obs.val = 1
    /\ Len(inMemory) = 0

\* C9 (deleteBatch's result): the number deleteBatch returns is count() before
\* the call minus count() after it.
C9_DeleteBatchReturnsCountDelta ==
    obs.op = "deleteBatch" => obs.val = obs.countBefore - Len(inMemory)

\* the squared distance from the query to the live record of an id
LiveDist2(query, id) == Dist2(query, MapGet(inMemory, id).vector)

\* the ids of a result list
ResultIds(val) == {val[i].id : i \in 1..Len(val)}

\* C10 (euclidean exactness): in a store populated by adds of distinct ids,
\* searchNearby(query, k) returns min(k, count) distinct live ids, and no live
\* record left out is strictly nearer to the query than a returned one: the
\* result is a brute-force choice of the k nearest up to ties in distance.
C10_NearbyIsBruteForceTopK ==
    obs.op = "searchNearby"
        => LET R == ResultIds(obs.val)
               n == IF obs.arg.k < Len(inMemory) THEN obs.arg.k ELSE Len(inMemory)
           IN  /\ obs.err = "none"
               /\ Len(obs.val) = n
               /\ Cardinality(R) = n
               /\ R \subseteq MapKeys(inMemory)
               /\ \A r \in R, s \in MapKeys(inMemory) \ R :
                      LiveDist2(obs.arg.query, r) <= LiveDist2(obs.arg.query, s)

\* C10 witness: the tree holds more nodes than the candidates asked of it, and
\* the search returned a record two levels or more below the root that is
\* strictly nearer than the record at the root.
C10_Witness ==
    /\ obs.op = "searchNearby"
    /\ obs.err = "none"
    /\ Cardinality(DOMAIN index.nodes) > Overfetch * obs.arg.k
    /\ Len(obs.val) = obs.arg.k
    /\ \E p \in DOMAIN index.nodes :
          /\ Len(p) >= 2
          /\ index.nodes[p].point.id = obs.val[1].id
          /\ obs.val[1].distance < Dist2(obs.arg.query, index.nodes[<<>>].point.vector)

\* the records of the put lines a step appends to the WAL
PutRows ==
    [i \in 1..(Len(storage'.wal) - Len(storage.wal)) |->
        LET rec == storage'.wal[Len(storage.wal) + i]
        IN  RecordEntry(rec.id, rec.vector, rec.meta)]

\* the MemTable of a step's puts before its flush check
PutMemtable == MapSetAll(storage.memtable, PutRows)

\* C11 (flush threshold): an add that leaves the MemTable below
\* memtableFlushSize keeps its record in the MemTable and writes no segment;
\* the add that brings it to memtableFlushSize empties the MemTable and, when
\* no compaction is due, adds exactly one new plain segment holding exactly
\* those records.
C11_FlushAtThreshold ==
    [][(obs'.op = "add" /\ obs'.err = "none")
          => IF Len(PutMemtable) < storage.memtableFlushSize
             THEN /\ storage'.memtable = PutMemtable
                  /\ storage'.dir = storage.dir
             ELSE /\ storage'.memtable = <<>>
                  /\ Len(PutMemtable) = storage.memtableFlushSize
                  /\ Cardinality(storage.dir) + 1 < storage.maxSSTablesBeforeCompact
                        => \E f \in storage'.dir :
                              /\ storage'.dir = storage.dir \cup {f}
                              /\ f \notin storage.dir
                              /\ ~f.name.compact
                              /\ Len(f.content) = storage.memtableFlushSize
                              /\ Range(f.content) = Range(PutMemtable)]_vars

\* C11 witness: after the add following the first flush the directory holds
\* one segment with memtableFlushSize records and the MemTable holds the
\* record just added.
C11_Witness ==
    /\ obs.op = "add"
    /\ Len(storage.wal) = storage.memtableFlushSize + 1
    /\ Len(storage.memtable) = 1
    /\ storage.memtable[1].id = storage.wal[Len(storage.wal)].id
    /\ \E f \in storage.dir :
          /\ storage.dir = {f}
          /\ ~f.name.compact
          /\ Len(f.content) = storage.memtableFlushSize

\* the files are segments written by a flush
AllPlain(dir) == \A f \in dir : ~f.name.compact

\* C12 (compaction trigger, as claimed for maxSSTablesBeforeCompact = 2): the
\* second flush of a fresh directory leaves its segment beside the first
\* one, and the flush that finds two flush-produced segments merges: the two
\* are deleted, one merged segment remains and the live view is unchanged.
C12_CompactionAtThirdFlush ==
    [][(storage.maxSSTablesBeforeCompact = 2 /\ storage'.sstCounter > storage.sstCounter)
          => /\ (storage.sstCounter = 1 /\ Cardinality(storage.dir) = 1 /\ AllPlain(storage.dir))
                  => /\ Cardinality(storage'.dir) = 2
                     /\ AllPlain(storage'.dir)
                     /\ storage.dir \subseteq storage'.dir
             /\ (Cardinality(storage.dir) = 2 /\ AllPlain(storage.dir))
                  => /\ Cardinality(storage'.dir) = 1
                     /\ ~AllPlain(storage'.dir)
                     /\ storage.dir \cap storage'.dir = {}
                     /\ obs'.compaction.happened
                     /\ obs'.compaction.before = obs'.compaction.after]_vars

\* C12 (compaction trigger, as amended): in a fresh directory a flush merges
\* exactly when its segment brings the number of segments to
\* maxSSTablesBeforeCompact (for 2: the second flush, not the third).  Without
\* a merge the new segment stands beside the old ones; with a merge every
\* earlier segment and the new one are deleted, exactly one merged segment
\* remains, and scanAll and get answer as before the merge.
C12_CompactionAtThreshold ==
    [][storage'.sstCounter > storage.sstCounter
          => IF Cardinality(storage.dir) + 1 < storage.maxSSTablesBeforeCompact
             THEN /\ ~obs'.compaction.happened
                  /\ Cardinality(storage'.dir) = Cardinality(storage.dir) + 1
                  /\ storage.dir \subseteq storage'.dir
                  /\ AllPlain(storage'.dir \ storage.dir)
             ELSE /\ obs'.compaction.happened
                  /\ obs'.compaction.before = obs'.compaction.after
                  /\ storage.dir \cap storage'.dir = {}
                  /\ \E f \in storage'.dir :
                        /\ storage'.dir = {f}
                        /\ f.name.compact
                        /\ {r.id : r \in Range(f.content)}
                              = {storage'.wal[i].id : i \in 1..Len(storage'.wal)}
                                    \ MapKeys(storage'.memtable)]_vars

\* C12 witness: the second flush of a fresh directory has merged: one merged
\* segment holds every record and the two flushed segments are gone.
C12_Witness ==
    /\ obs.compaction.happened
    /\ storage.maxSSTablesBeforeCompact = 2
    /\ storage.sstCounter = 3
    /\ \E f \in storage.dir :
          /\ storage.dir = {f}
          /\ f.name.compact
          /\ Len(f.content) = Len(storage.wal)

(***************************************************************************)
(* C13: at any moment at most one caller holds a write permit, and while   *)
(* one does no caller holds a read permit; this stays so when a release    *)
(* function is called more than once, and the lock's count of readers is   *)
(* the number of read permits held, so it is never negative.               *)
(***************************************************************************)
Holders(mode) == {p \in Callers : proc[p].pc = "holding" /\ proc[p].mode = mode}

C13_MutualExclusion ==
    /\ Cardinality(Holders("write")) <= 1
    /\ Holders("write") # {} => Holders("read") = {}
    /\ lock.readers >= 0
    /\ lock.readers = Cardinality(Holders("read"))
    /\ lock.writer <=> Holders("write") # {}

\* a permit was released twice while another caller writes and a third waits to read
C13_Witness ==
    /\ \E p \in Callers : proc[p].calls = 2 /\ proc[p].pc = "released"
    /\ Holders("write") # {}
    /\ Len(lock.readQueue) > 0

(***************************************************************************)
(* C14: a read request is granted at once exactly when no caller holds a   *)
(* write permit and no write request is waiting; otherwise it waits, and   *)
(* it is not granted before every write request that was waiting when it   *)
(* arrived has been granted.                                               *)
(***************************************************************************)
ReadRequestedBy(p) ==
    /\ proc[p].pc \in {"idle", "released"}
    /\ proc'[p].pc \in {"waiting", "holding"}
    /\ proc'[p].mode = "read"

GrantedLater(p) == proc[p].pc = "waiting" /\ proc'[p].pc = "holding"

C14_WriterPreference ==
    [][\A p \in Callers :
        /\ ReadRequestedBy(p) =>
              (proc'[p].pc = "holding" <=> (Holders("write") = {} /\ WaitingWriters(proc) = {}))
        /\ (GrantedLater(p) /\ proc[p].mode = "read") =>
              (proc[p].ahead = {} /\ WaitingWriters(proc) = {})]_vars

\* a read request waits behind a waiting write request while another caller reads
C14_Witness ==
    \E p, w, r \in Callers :
        /\ proc[p].pc = "waiting" /\ proc[p].mode = "read" /\ w \in proc[p].ahead
        /\ proc[w].pc = "waiting" /\ proc[w].mode = "write"
        /\ proc[r].pc = "holding" /\ proc[r].mode = "read"

(***************************************************************************)
(* C15: write requests are granted in the order they were made.  A write   *)
(* request is granted at once only when no write request is waiting, and a *)
(* waiting one is granted only after every write request that was waiting  *)
(* when it arrived.                                                        *)
(***************************************************************************)
WriteRequestedBy(p) ==
    /\ proc[p].pc \in {"idle", "released"}
    /\ proc'[p].pc \in {"waiting", "holding"}
    /\ proc'[p].mode = "write"

C15_WriterFifo ==
    [][\A p \in Callers :
        /\ (WriteRequestedBy(p) /\ proc'[p].pc = "holding") => WaitingWriters(proc) = {}
        /\ (WriteRequestedBy(p) /\ proc'[p].pc = "waiting") =>
              (proc'[p].ahead = WaitingWriters(proc) /\ lock'.writeQueue = Append(lock.writeQueue, p))
        /\ (GrantedLater(p) /\ proc[p].mode = "write") =>
              (proc[p].ahead = {} /\ Head(lock.writeQueue) = p)]_vars

\* two write requests wait, one made after the other, while a third caller holds the lock
C15_Witness ==
    \E p, q \in Callers :
        /\ proc[p].pc = "waiting" /\ proc[p].mode = "write" /\ proc[p].ahead = {}
        /\ proc[q].pc = "waiting" /\ proc[q].mode = "write" /\ proc[q].ahead = {p}
        /\ lock.writeQueue = <<p, q>>

(***************************************************************************)
(* C16: when every granted permit is eventually released, every write      *)
(* request is eventually granted, whatever read and write requests keep    *)
(* arriving.                                                               *)
(***************************************************************************)
WaitsFor(p, mode) == proc[p].pc = "waiting" /\ proc[p].mode = mode

Holds(p, mode) == proc[p].pc = "holding" /\ proc[p].mode = mode

C16_NoWriterStarvation == \A p \in Callers : WaitsFor(p, "write") ~> Holds(p, "write")

\* a write request that had to wait holds the lock, while a read request that arrived
\* behind it and a later write request wait
C16_Witness ==
    \E p \in Callers :
        /\ Holds(p, "write")
        /\ proc[p].queued
        /\ \E q \in Callers \ {p} : WaitsFor(q, "read")
        /\ \E q \in Callers \ {p} : WaitsFor(q, "write")

(***************************************************************************)
(* C17: when every granted permit is eventually released, every read       *)
(* request that waits is eventually granted, however many write requests   *)
(* keep arriving.                                                          *)
(***************************************************************************)
C17_NoReaderStarvation == \A p \in Callers : WaitsFor(p, "read") ~> Holds(p, "read")

(***************************************************************************)
(* C19: when wal.jsonl holds a line that cannot be parsed, open fails; an  *)
(* open that returns has replayed every line of the WAL.                   *)
(***************************************************************************)
OpenStep == obs'.op = "open" /\ storage'.wal = storage.wal

C19_CorruptWalFailsOpen ==
    [][OpenStep =>
        /\ (\E i \in 1..Len(storage.wal) : ~Parses(storage.wal[i])) => obs'.err # "none"
        /\ obs'.err = "none" => ~ReplayWAL(storage.wal).caught]_vars

(***************************************************************************)
(* C20: an add, addBatch, delete or deleteBatch that fails because a       *)
(* storage step threw leaves the live records, the dimensionality and the  *)
(* live records a reopen would reconstruct as they were before the call.   *)
(***************************************************************************)
C20_FailedWriteHasNoEffect ==
    [][obs'.err = "StorageError" =>
        /\ inMemory' = inMemory
        /\ dims' = dims
        /\ Reopened' = Reopened]_vars

(***************************************************************************)
(* C18: under any interleaving of concurrent calls, a step that changes    *)
(* the MemTable, the WAL, the segment files, the mirror or the index is a  *)
(* step of a call that holds the write permit, and no other call holds a   *)
(* permit then; a step of a call that holds a read permit changes none of  *)
(* them, nor the dimensionality.                                           *)
(***************************************************************************)
Mutates == storage' # storage \/ inMemory' # inMemory \/ index' # index

StepOf(p) == call'[p] # call[p]

C18_MutationOnlyUnderWritePermit ==
    [][/\ Mutates =>
            \E p \in Clients :
                /\ StepOf(p)
                /\ Holds(p, "write")
                /\ \A q \in Callers \ {p} : proc[q].pc # "holding"
       /\ \A p \in Clients :
            (StepOf(p) /\ Holds(p, "read")) => (~Mutates /\ dims' = dims)]_vars

\* an add has done its storage call under the write permit and is about to update the
\* mirror, while a search waits for its read permit
C18_Witness ==
    \E p, q \in Clients :
        /\ call[p].op = "add" /\ call[p].at = "stored" /\ Holds(p, "write")
        /\ call[q].op = "searchNearby" /\ WaitsFor(q, "read")
        /\ Len(storage.wal) > 0

(***************************************************************************)
(* C21: in every reachable state get(id) answers with the latest operation *)
(* on id: undefined when it was a delete (or there was none), else the     *)
(* record of the most recent put, from the MemTable or from the segments;  *)
(* neither get nor scanAll returns a tombstoned id.                        *)
(***************************************************************************)
\* the lines of wal.jsonl about id: the WAL is never truncated, so they are the history
\* of the puts and deletes of id
LinesOf(id) == {i \in 1..Len(storage.wal) : storage.wal[i].id = id}

LatestOf(id) ==
    IF LinesOf(id) = {} THEN NotFound
    ELSE LET rec == storage.wal[CHOOSE i \in LinesOf(id) : \A j \in LinesOf(id) : j <= i]
         IN  IF rec.type = "del" THEN NotFound
             ELSE RecordEntry(rec.id, rec.vector, rec.meta)

C21_GetReturnsLatest ==
    /\ \A id \in Ids : Get(storage, id) = LatestOf(id)
    /\ \A id \in storage.tombstones :
          /\ Get(storage, id) = NotFound
          /\ \A r \in Range(ScanAll(storage)) : r.id # id

(***************************************************************************)
(* C22: every segment a flush or a compaction writes gets a sequence       *)
(* number greater than that of every segment in the directory, so no       *)
(* existing segment file is written again and a segment keeps its content  *)
(* until a compaction deletes it; also after a reopen of the directory.    *)
(***************************************************************************)
\* the sequence numbers a step gave to the files it wrote: flushMemtable() and
\* maybeCompact() increment sstCounter once for each file
WrittenSeqs == (storage.sstCounter + 1)..storage'.sstCounter

C22_SegmentsNumberedMonotonically ==
    [][/\ \A n \in WrittenSeqs : \A f \in storage.dir : n > f.name.seq
       /\ \A f \in storage.dir : \A g \in storage'.dir :
             f.name = g.name => f.content = g.content]_vars

(***************************************************************************)
(* C23: a search produces its result only in a step that holds a read      *)
(* permit, its emptiness check and its dimension check included; so a      *)
(* search issued while a write call holds the write permit or waits for it *)
(* does not return before that write call has released the permit.         *)
(***************************************************************************)
SearchReturns == obs' # obs /\ obs'.op \in {"searchSimilar", "searchNearby"}

WriteInFlight == \E q \in Clients : Holds(q, "write") \/ WaitsFor(q, "write")

C23_SearchReadsUnderReadPermit ==
    [][/\ SearchReturns => \E p \in Clients : StepOf(p) /\ Holds(p, "read")
       /\ (SearchReturns /\ WriteInFlight) =>
             \E p \in Clients : StepOf(p) /\ \A q \in Clients : ~Holds(q, "write")]_vars
(***************************************************************************)
(* C24: no result list of searchSimilar or searchNearby holds the same id  *)
(* twice, also after an id that is live was added again or an id that was  *)
(* deleted was added again.                                                *)
(***************************************************************************)
C24_ResultIdsUnique ==
    (obs.op \in Searches /\ obs.err = "none")
        => \A i, j \in 1..Len(obs.val) : obs.val[i].id = obs.val[j].id => i = j

(***************************************************************************)
(* C25: a search with a query of the store's dimensionality and k >= 1     *)
(* returns min(k, count()) results, each the live record of its id, best   *)
(* first; stale nodes of the index do not make the list shorter.           *)
(***************************************************************************)
BestFirst(op, val) ==
    \A i \in 1..(Len(val) - 1) :
        IF op = "searchNearby"
        THEN val[i].distance <= val[i + 1].distance
        ELSE ~ScoreGreater(val[i + 1].score, val[i].score)

C25_ResultSize ==
    (obs.op \in Searches /\ Len(obs.arg.query) = dims /\ obs.arg.k >= 1)
        => /\ obs.err = "none"
           /\ Len(obs.val) = IF obs.arg.k < Len(inMemory) THEN obs.arg.k ELSE Len(inMemory)
           /\ \A i \in 1..Len(obs.val) :
                 /\ MapHas(inMemory, obs.val[i].id)
                 /\ MapGet(inMemory, obs.val[i].id).vector = obs.val[i].vector
           /\ BestFirst(obs.op, obs.val)

=============================================================================
